---- MODULE Spec2Model ----
(***************************************************************************)
(* Threat Intelligence Manager                                             *)
(* (aura-backend/threat-intelligence-agent/threat_manager.py).             *)
(*                                                                         *)
(* State: the manager's cache entry (threat_cache, last_fetch_time), the   *)
(* wall clock, and a record of the last manager call: its name, its        *)
(* return value, the scraper calls it made and the enricher calls it made, *)
(* and how it found the cache on entry (empty, fresh or stale).            *)
(* One action per public coroutine of ThreatIntelligenceManager; each      *)
(* action is the whole call, from entry to return.                         *)
(*                                                                         *)
(* Time is counted in seconds.  A published_date is modelled by its rank   *)
(* in the lexicographic order of the date strings: the empty string, which *)
(* the sort key substitutes for a missing date, has rank EmptyString and   *)
(* every real date string has a rank above it.  A text (a title, a query)  *)
(* is a sequence of one-character strings.                                 *)
(*                                                                         *)
(* Spec is the life cycle of the cache: every                              *)
(* interleaving of the manager's calls with the clock, with collaborators  *)
(* that answer (no scraper raises, no enrichment fails) and threats that   *)
(* differ in source, position and enrichment only.  PipelineSpec is the    *)
(* data path of one call on a newly                                        *)
(* constructed manager, with every combination of dates, raising scrapers  *)
(* and failing enrichments within the bounds.  The further                 *)
(* specifications, each introduced where it is defined, look at one part:  *)
(* failing collaborators, the readers of a given cache, one scraper call,  *)
(* one enrich_threat call, the coroutines of two tasks, the arguments of   *)
(* fetch_all_threats, and the module-level manager instance.               *)
(***************************************************************************)
EXTENDS Integers, Sequences, FiniteSets, TLC

VARIABLES threat_cache,     \* self.threat_cache: list of threat dicts
          last_fetch_time,  \* self.last_fetch_time: <<>> is None, <<t>> a time
          now,              \* datetime.utcnow(), in seconds
          op,               \* the last manager call: [name, ...arguments, raised]
          result,           \* the value the last call returned
          fetch_log,        \* scraper.fetch_threats calls of the last call, in order
          enrich_log,       \* ai_processor.enrich_threat calls of the last call, in order
          tasks,            \* InterleavedSpec: the coroutines in flight, with their locals
          threat_manager_instance \* _threat_manager_instance: <<>> is None

vars == <<threat_cache, last_fetch_time, now, op, result, fetch_log, enrich_log,
          tasks, threat_manager_instance>>

---------------------------------------------------------------------------
(* Bounds of the model *)

\* PipelineSpec: most raw threats the scrapers return, in total, to one call
MaxItems == 2
\* Spec: most raw threats the scrapers return, in total, to one call
MaxBatch == 1
\* published_date ranks 1..MaxDate (besides a missing date)
MaxDate == 2
\* the clock stops advancing at MaxTime seconds
MaxTime == 3600
\* ReaderSpec: most threats in the cache a reader is called on
MaxCached == 2
\* ScraperSpec: most entries in a live feed, and the highest limit below the
\* default one
MaxEntries == 2
MaxLimit == 3
\* EnricherSpec: most lines in a reply of the model, and most CVE ids or
\* system names a threat's text mentions
MaxLines == 11
MaxMentions == 6

(* Program constants *)

\* self.cache_duration = timedelta(hours=1), in seconds
CacheDuration == 3600
\* fetch_all_threats(limit_per_source: int = 10, ...)
DefaultLimitPerSource == 10
\* x.get('published_date', ''): the rank of the empty string
EmptyString == 0
\* iocs[:10] of extract_iocs
IocsLimit == 10
\* systems[:5], recommendations[:5], and [:5] of the three fallbacks
TopFive == 5
\* len(base_recs) of _fallback_recommendations
BaseRecommendations == 3
\* fetch_threats(self, limit: int = 20) of the scrapers
DefaultLimit == 20
\* timedelta(hours=24) of get_threat_summary, in seconds
DayLength == 86400
\* total_seconds() / 60 of _get_cache_expiry_minutes
SecondsPerMinute == 60

\* the clock advances in steps of half the cache duration, so that an age
\* below and an age equal to the cache duration both occur
ClockStep == CacheDuration \div 2

---------------------------------------------------------------------------
(* The registry of scrapers, in dict insertion order *)

\* faulty variant of scrapers: the registry in alphabetical order
scrapers_sorted == <<"BleepingComputer", "CERT-IN", "CISA", "FBI">>

scrapers == <<"CISA", "CERT-IN", "FBI", "BleepingComputer">>

SourceNames == {scrapers[i] : i \in 1..Len(scrapers)}

\* a source name that is not a key of self.scrapers
UnknownSource == "Unknown"

---------------------------------------------------------------------------
(* Sequences and texts *)

Sum(f, S) ==
    LET RECURSIVE Acc(_)
        Acc(T) == IF T = {} THEN 0
                  ELSE LET x == CHOOSE y \in T : TRUE IN f[x] + Acc(T \ {x})
    IN Acc(S)

SeqSum(c) == Sum(c, DOMAIN c)

\* concatenation of a sequence of sequences
RECURSIVE Flatten(_)
Flatten(ss) == IF ss = <<>> THEN <<>> ELSE Head(ss) \o Flatten(Tail(ss))

\* str.lower(), on the alphabet of the model
LowerChar(c) ==
    CASE c = "R" -> "r"
      [] c = "A" -> "a"
      [] c = "H" -> "h"
      [] OTHER -> c

Lower(text) == [i \in DOMAIN text |-> LowerChar(text[i])]

\* needle in hay, for two strings
Contains(needle, hay) ==
    \E i \in 0..(Len(hay) - Len(needle)) :
        SubSeq(hay, i + 1, i + Len(needle)) = needle

\* ' '.join(words)
RECURSIVE JoinSpace(_)
JoinSpace(words) ==
    IF words = <<>> THEN <<>>
    ELSE IF Len(words) = 1 THEN words[1]
    ELSE words[1] \o <<" ">> \o JoinSpace(Tail(words))

---------------------------------------------------------------------------
(* Threat dicts *)

\* dict.get(key, default)
Get(d, key, default) == IF key \in DOMAIN d THEN d[key] ELSE default

\* the text fields the scraper of source s gives its threats
TextOf(s) ==
    CASE s = "CISA" ->
           [title |-> <<"R", "a">>, full_content |-> <<"x">>,
            tags |-> <<<<"r">>>>, severity |-> <<"h">>]
      [] s = "CERT-IN" ->
           [title |-> <<"x">>, full_content |-> <<"r", "a">>,
            tags |-> <<>>, severity |-> <<"H">>]
      [] s = "FBI" ->
           [title |-> <<"x">>, full_content |-> <<"x">>,
            tags |-> <<<<"r">>, <<"a">>>>, severity |-> <<"l">>]
      [] OTHER ->
           [title |-> <<"x">>, full_content |-> <<>>,
            tags |-> <<<<"x">>>>, severity |-> <<"l">>]

\* a raw threat of source s, the n-th of the list the scraper returned.  Its
\* feed_id is the source-native id n without the source prefix, so that the
\* ids of two sources may coincide (nothing in the manager compares them).
\* date = <<>> is a dict without published_date, <<r>> one whose date has rank r
RawThreat(s, n, date) ==
    IF date = <<>>
    THEN [feed_id |-> n, source |-> s] @@ TextOf(s)
    ELSE [feed_id |-> n, source |-> s, published_date |-> date[1]] @@ TextOf(s)

DateChoices == {<<>>} \cup {<<r>> : r \in 1..MaxDate}

\* in Spec every threat carries the same date
OneDate == {<<1>>}

\* the four keys enrich_threat adds
EnrichmentKeys == {"quick_summary", "iocs", "affected_systems", "recommendations"}

---------------------------------------------------------------------------
(* The collaborators, as the manager sees them *)

\* AIThreatProcessor.enrich_threat on success: a copy of the threat with the
\* four enrichment keys set (a key the threat already had is overwritten)
enrich_threat(threat) ==
    [quick_summary |-> "summary", iocs |-> <<>>,
     affected_systems |-> <<>>, recommendations |-> <<>>] @@ threat

\* what one scraper.fetch_threats(limit) call did: it raised, or it returned
\* a list of threats
FetchOutcome(s, raised, threats) ==
    [source |-> s, raised |-> raised, threats |-> threats]

\* the world around the manager: at most `most` threats returned to one call
\* in all, published dates among `dates`, scrapers that may raise or not,
\* enrichments that may fail or not
World(most, dates, mayRaise, mayFail) ==
    [most |-> most, dates |-> dates, mayRaise |-> mayRaise, mayFail |-> mayFail]

\* how many items each scraper of `names` returns to fetch_threats(limit):
\* at most `limit` each, at most `most` in all
Counts(names, most, limit) ==
    {c \in [1..Len(names) -> 0..most] :
        /\ \A i \in DOMAIN c : c[i] <= limit
        /\ SeqSum(c) <= most}

\* the outcomes of calling every scraper of `names` once, in order: one
\* FetchOutcome per name.  c: the counts, dates: the dates of all the items
\* returned, raised: the scrapers that raised (they returned nothing)
Outcomes(names, c, dates, raised) ==
    [i \in 1..Len(names) |->
        LET before == SeqSum([j \in 1..(i - 1) |-> c[j]])
        IN FetchOutcome(names[i], i \in raised,
              [n \in 1..c[i] |-> RawThreat(names[i], n, dates[before + n])])]

\* the environment of one manager call: the outcomes of its scraper calls
\* and the positions, in the order collected, of the threats whose
\* enrichment fails
Env(outs, failed) == [outs |-> outs, failed |-> failed]

\* a call that reaches no scraper
NoCalls == Env(<<>>, {})

\* Act holds of some environment that calling fetch_threats(limit) on every
\* scraper of `names`, and then enrich_threat if use_ai, can meet in world w
InSomeEnv(names, w, limit, use_ai, Act(_)) ==
    \E c \in Counts(names, w.most, limit) :
      \E dates \in [1..SeqSum(c) -> w.dates] :
        \E raised \in IF w.mayRaise THEN SUBSET {i \in DOMAIN c : c[i] = 0}
                      ELSE {{}} :
          \E failed \in IF use_ai /\ w.mayFail THEN SUBSET (1..SeqSum(c))
                      ELSE {{}} :
            Act(Env(Outcomes(names, c, dates, raised), failed))

\* the moment the date string of rank r names: rank 1 is a date a day before
\* the manager was constructed, a higher rank one after its construction
DateTime(r) == IF r = 1 THEN 0 - DayLength ELSE r - 2

\* PipelineSpec: every date, scrapers that may raise, enrichments that may fail
PipelineWorld == World(MaxItems, DateChoices, TRUE, TRUE)

\* Spec: collaborators that answer, and threats of one date; for the one
\* scraper of fetch_threats_by_source, an enrichment may fail too
OrdinaryWorld == World(MaxBatch, OneDate, FALSE, FALSE)

SourceWorld == World(MaxBatch, OneDate, TRUE, TRUE)

---------------------------------------------------------------------------
(* The scrapers *)

\* a slice that keeps the whole list
TakeAll(xs, limit) == xs

\* xs[:limit], for limit >= 0
Take(xs, limit) == SubSeq(xs, 1, IF limit < Len(xs) THEN limit ELSE Len(xs))

\* what feedparser.parse and the loop over its entries meet: an exception
\* (caught in _fetch_from_rss), or a feed with entries, possibly none; an
\* entry is given by whether its title is security related
LiveFeed(error, entries) == [error |-> error, entries |-> entries]

LiveFeeds ==
    {LiveFeed(TRUE, <<>>)}
        \cup {LiveFeed(FALSE, entries) :
                  entries \in UNION {[1..n -> BOOLEAN] : n \in 0..MaxEntries}}

\* the threat made of the n-th entry of the live feed of source s
LiveThreat(s, n) == RawThreat(s, n, <<1>>)

\* the n-th dict of _get_fallback_data of source s; its feed_id,
\* <source>_mock_00n, is written -n
FallbackThreat(s, n) == RawThreat(s, 0 - n, <<1>>)

\* the number of dicts _get_fallback_data returns
FallbackSize(s) ==
    CASE s = "CISA" -> 2
      [] s = "CERT-IN" -> 4
      [] s = "FBI" -> 4
      [] s = "BleepingComputer" -> 5

get_fallback_data(s) == [n \in 1..FallbackSize(s) |-> FallbackThreat(s, n)]

\* _fetch_from_rss of CISAScraper and BleepingComputerScraper: the first
\* `limit` entries, of which BleepingComputer keeps the security related
\* ones; the empty list when an exception is caught
fetch_from_rss(s, live, limit) ==
    IF live.error THEN <<>>
    ELSE LET first == Take(live.entries, limit)
             numbered == [n \in DOMAIN first |-> [n |-> n, security |-> first[n]]]
             Kept(entry) == s # "BleepingComputer" \/ entry.security
             kept == SelectSeq(numbered, Kept)
         IN [k \in DOMAIN kept |-> LiveThreat(s, kept[k].n)]

\* CISAScraper._fetch_from_web: the empty list on every path
fetch_from_web(s, limit) == <<>>

\* fetch_threats(limit) of the scraper of source s.  The outer except of
\* each is not reached: the helpers catch their own exceptions
scraper_fetch_threats(s, live, limit) ==
    CASE s = "CISA" ->
           LET threats == fetch_from_rss(s, live, limit)
           IN IF threats = <<>> THEN fetch_from_web(s, limit) ELSE threats
      [] s \in {"CERT-IN", "FBI"} ->
           Take(get_fallback_data(s), limit)
      [] s = "BleepingComputer" ->
           LET threats == fetch_from_rss(s, live, limit)
           IN IF threats = <<>> THEN Take(get_fallback_data(s), limit)
              ELSE threats

---------------------------------------------------------------------------
(* AIThreatProcessor *)

\* what self.client.chat.completions.create and the parsing of its reply
\* come to in one sub-call: an exception ("error"), the reply that stands
\* for nothing found ("None", "Not specified": "special"), or a reply with n
\* usable lines ("lines")
Reply(kind, n) == [kind |-> kind, n |-> n]

ReplyLengths == {0, 1, MaxLines - 1, MaxLines}

Replies ==
    {Reply("error", 0), Reply("special", 0)}
        \cup {Reply("lines", n) : n \in ReplyLengths}

\* what the fallbacks read in title and full_content: the number of distinct
\* CVE ids and the number of the common system names found there
Facts(cves, systems) == [cves |-> cves, systems |-> systems]

\* a threat whose full_content is not a string (None): slicing it and adding
\* it to a string raise TypeError
NotText == [cves |-> 0, systems |-> 0, none |-> TRUE]

IsText(facts) == "none" \notin DOMAIN facts

MentionChoices == {0, 1, MaxMentions}

\* a list of n distinct strings
Lines(n) == [k \in 1..n |-> k]

fallback_summary(threat) == "fallback"

\* list(set(iocs))[:5]; which five, and in which order, is the set's choice
fallback_iocs(facts) == Take(Lines(facts.cves), TopFive)

fallback_affected_systems(facts) ==
    IF facts.systems > 0 THEN Take(Lines(facts.systems), TopFive)
    ELSE <<"Multiple systems potentially affected">>

fallback_recommendations(threat) ==
    LET more == IF Get(threat, "severity", <<"m">>) \in {<<"c">>, <<"h">>}
                THEN 2 ELSE 0
    IN Take(Lines(BaseRecommendations + more), TopFive)

generate_quick_summary(client, reply, threat) ==
    IF ~client \/ reply.kind = "error" THEN fallback_summary(threat)
    ELSE "summary"

\* faulty variant of extract_iocs: the reply's list is returned whole
extract_iocs_uncapped(client, reply, facts) ==
    IF ~client \/ reply.kind = "error" THEN fallback_iocs(facts)
    ELSE IF reply.kind = "special" THEN <<>>
    ELSE Lines(reply.n)

extract_iocs(client, reply, facts) ==
    IF ~client \/ reply.kind = "error" THEN fallback_iocs(facts)
    ELSE IF reply.kind = "special" THEN <<>>
    ELSE Take(Lines(reply.n), IocsLimit)

identify_affected_systems(client, reply, facts) ==
    IF ~client \/ reply.kind = "error" THEN fallback_affected_systems(facts)
    ELSE IF reply.kind = "special" THEN <<"Not specified in alert">>
    ELSE Take(Lines(reply.n), TopFive)

\* faulty variant of generate_recommendations: the reply is read whether or
\* not there is a client
generate_recommendations_asking(client, reply, threat) ==
    IF reply.kind = "error" THEN fallback_recommendations(threat)
    ELSE Take(Lines(reply.n), TopFive)

\* a "special" reply has no bulleted or numbered line
generate_recommendations(client, reply, threat) ==
    IF ~client \/ reply.kind = "error" THEN fallback_recommendations(threat)
    ELSE Take(Lines(reply.n), TopFive)

\* the sub-calls of enrich_threat that get as far as
\* self.client.chat.completions.create: each returns its fallback first when
\* self.client is None
completions_create_calls(client) == IF client THEN EnrichmentKeys ELSE {}

\* faulty variant of threat_copy: enriched = threat, the dict passed in
threat_alias == "input"

\* enriched = threat.copy(): the keys are set on a new dict
threat_copy == "copy"

\* the dicts after the keys of `enriched` were set on the dict `ref`:
\* "input" is the dict passed in, "copy" the one made of it
Store(ref, threat, enriched) ==
    IF ref = "input" THEN [input |-> enriched]
    ELSE [input |-> threat, copy |-> enriched]

\* AIThreatProcessor.enrich_threat with its four sub-calls: the dicts it
\* leaves behind and the one it returns.  Each sub-call catches every
\* Exception and answers with its fallback.  On the string fields the
\* scrapers set no fallback raises.  When full_content is not a string,
\* generate_quick_summary still answers (its fallback formats the fields) and
\* extract_iocs raises from its handler, in _fallback_iocs: the except of
\* enrich_threat returns the dict passed in, after quick_summary was set
enrich_threat_dicts(client, replies, facts, threat) ==
    LET summary == [quick_summary |->
                        generate_quick_summary(client, replies.quick_summary,
                                               threat)]
    IN IF IsText(facts)
       THEN [objects |->
                 Store(threat_copy, threat,
                       summary @@
                       [iocs |-> extract_iocs(client, replies.iocs, facts),
                        affected_systems |->
                            identify_affected_systems(client,
                                replies.affected_systems, facts),
                        recommendations |->
                            generate_recommendations(client,
                                replies.recommendations, threat)]
                       @@ threat),
             returned |-> threat_copy]
       ELSE [objects |-> Store(threat_copy, threat, summary @@ threat),
             returned |-> "input"]

\* the dict enrich_threat returns
processor_enrich_threat(client, replies, facts, threat) ==
    LET dicts == enrich_threat_dicts(client, replies, facts, threat)
    IN dicts.objects[dicts.returned]

---------------------------------------------------------------------------
(* ThreatIntelligenceManager *)

\* the sort key: x.get('published_date', '')
SortKey(x) == Get(x, "published_date", EmptyString)

\* faulty variant of SortByDateDesc: the sort is left out
Unsorted(xs) == xs

\* faulty variant of SortByDateDesc: descending by key, and an item goes in
\* front of the earlier items of the same key
RECURSIVE SortByDateDescUnstable(_)
SortByDateDescUnstable(xs) ==
    IF xs = <<>> THEN <<>>
    ELSE LET front == SortByDateDescUnstable(SubSeq(xs, 1, Len(xs) - 1))
             x == xs[Len(xs)]
             k == Cardinality({i \in DOMAIN front : SortKey(front[i]) > SortKey(x)})
         IN SubSeq(front, 1, k) \o <<x>> \o SubSeq(front, k + 1, Len(front))

\* list.sort(key=SortKey, reverse=True): descending by key, and stable (items
\* with equal keys keep their order)
RECURSIVE SortByDateDesc(_)
SortByDateDesc(xs) ==
    IF xs = <<>> THEN <<>>
    ELSE LET front == SortByDateDesc(SubSeq(xs, 1, Len(xs) - 1))
             x == xs[Len(xs)]
             k == Cardinality({i \in DOMAIN front : SortKey(front[i]) >= SortKey(x)})
         IN SubSeq(front, 1, k) \o <<x>> \o SubSeq(front, k + 1, Len(front))

\* faulty variant of is_cache_valid: the age comparison is reversed
is_cache_valid_reversed(cache, fetched, t) ==
    IF cache = <<>> \/ fetched = <<>> THEN FALSE
    ELSE t - fetched[1] >= CacheDuration

\* faulty variant of is_cache_valid: an entry exactly one cache duration old
\* still counts as valid
is_cache_valid_at_equality(cache, fetched, t) ==
    IF cache = <<>> \/ fetched = <<>> THEN FALSE
    ELSE t - fetched[1] <= CacheDuration

\* _is_cache_valid, of the cache entry (cache, fetched) at time t
is_cache_valid(cache, fetched, t) ==
    IF cache = <<>> \/ fetched = <<>> THEN FALSE
    ELSE t - fetched[1] < CacheDuration

\* the manager's inner try/except around one enrich_threat call: the enriched
\* copy, or the original threat when the enrichment of this threat failed
EnrichOrKeep(threat, ok) ==
    IF ok THEN enrich_threat(threat) ELSE threat

\* the position, in the order collected, before the threats of outs[i]
Before(outs, i) == SeqSum([j \in 1..(i - 1) |-> Len(outs[j].threats)])

\* faulty variant of Enriched: a threat whose enrichment fails is dropped
EnrichedDroppingFailed(env, i, use_ai) ==
    LET threats == env.outs[i].threats
        Kept(threat) ==
            \E n \in DOMAIN threats :
                /\ threats[n] = threat
                /\ Before(env.outs, i) + n \notin env.failed
    IN IF use_ai /\ threats # <<>>
       THEN [n \in DOMAIN SelectSeq(threats, Kept) |->
                enrich_threat(SelectSeq(threats, Kept)[n])]
       ELSE threats

\* `if use_ai and threats:` and the loop under it: the threats of the i-th
\* scraper call, each enriched or, when its enrichment fails, kept as it is
Enriched(env, i, use_ai) ==
    LET threats == env.outs[i].threats IN
    IF use_ai /\ threats # <<>>
    THEN [n \in DOMAIN threats |->
             EnrichOrKeep(threats[n], Before(env.outs, i) + n \notin env.failed)]
    ELSE threats

\* faulty variant of Contribution: a scraper that raises ends the loop, so
\* the scrapers after it add nothing either
ContributionUntilRaise(env, i, use_ai) ==
    IF \E j \in 1..i : env.outs[j].raised
    THEN <<>>
    ELSE Enriched(env, i, use_ai)

\* what the i-th scraper call adds to all_threats: nothing when it raised
Contribution(env, i, use_ai) ==
    IF env.outs[i].raised THEN <<>> ELSE Enriched(env, i, use_ai)

\* the enrich_threat calls made for the threats of the i-th scraper call
EnrichCalls(env, i, use_ai) ==
    LET out == env.outs[i] IN
    IF ~out.raised /\ use_ai /\ out.threats # <<>>
    THEN [n \in DOMAIN out.threats |->
             [source |-> out.source, feed_id |-> out.threats[n].feed_id,
              ok |-> Before(env.outs, i) + n \notin env.failed]]
    ELSE <<>>

\* faulty variant of Collect: of the threats with the same feed_id only the
\* first is kept
CollectDistinct(env, use_ai) ==
    LET all == Flatten([i \in DOMAIN env.outs |-> Contribution(env, i, use_ai)])
        first == {k \in DOMAIN all :
                     \A j \in 1..(k - 1) : all[j].feed_id # all[k].feed_id}
    IN [m \in 1..Cardinality(first) |->
           all[CHOOSE k \in first : Cardinality({j \in first : j <= k}) = m]]

\* all_threats at the end of the loop over self.scrapers
Collect(env, use_ai) ==
    Flatten([i \in DOMAIN env.outs |-> Contribution(env, i, use_ai)])

\* what a manager call that returns leaves behind: the cache entry, the
\* returned value and the calls made
Outcome(cache, fetched, res, flog, elog) ==
    [threat_cache |-> cache, last_fetch_time |-> fetched, result |-> res,
     fetch_log |-> flog, enrich_log |-> elog, raises |-> FALSE]

\* what a block of code leaves behind when an exception leaves it
Raise(cache, fetched, flog, elog) ==
    [threat_cache |-> cache, last_fetch_time |-> fetched, result |-> <<>>,
     fetch_log |-> flog, enrich_log |-> elog, raises |-> TRUE]

\* faulty variant of Except: no handler, the exception goes on to the caller
ExceptNothing(body, handler) == body

\* try: body / except Exception: handler
Except(body, handler) == IF body.raises THEN handler ELSE body

\* faulty variant of publish: the new list is stored, the fetch time is not
publish_keeping_time(all_threats, fetched, t) ==
    [threat_cache |-> SortByDateDesc(all_threats), last_fetch_time |-> fetched]

\* the end of fetch_all_threats, which no await interrupts: all_threats is
\* sorted and assigned to the cache, and the fetch time set to the time t
publish(all_threats, fetched, t) ==
    [threat_cache |-> SortByDateDesc(all_threats), last_fetch_time |-> <<t>>]

\* fetch_all_threats, entered at time t with the cache entry (cache, fetched),
\* in environment env
\* faulty variant of fetch_all_threats: a valid cache is enriched before it is
\* returned to a call with use_ai
fetch_all_threats_enriching_cached(cache, fetched, t, use_ai, env) ==
    LET entry == publish(Collect(env, use_ai), fetched, t)
        all_threats == entry.threat_cache
        served == IF use_ai THEN [k \in DOMAIN cache |-> enrich_threat(cache[k])]
                  ELSE cache
        body == IF is_cache_valid(cache, fetched, t)
                THEN Outcome(cache, fetched, served, <<>>, <<>>)
                ELSE Outcome(all_threats, entry.last_fetch_time, all_threats,
                             env.outs,
                             Flatten([i \in DOMAIN env.outs |->
                                         EnrichCalls(env, i, use_ai)]))
    IN Except(body, Outcome(cache, fetched, cache, body.fetch_log, body.enrich_log))

fetch_all_threats(cache, fetched, t, use_ai, env) ==
    LET entry == publish(Collect(env, use_ai), fetched, t)
        all_threats == entry.threat_cache
        body == IF is_cache_valid(cache, fetched, t)
                THEN Outcome(cache, fetched, cache, <<>>, <<>>)
                ELSE Outcome(all_threats, entry.last_fetch_time, all_threats,
                             env.outs,
                             Flatten([i \in DOMAIN env.outs |->
                                         EnrichCalls(env, i, use_ai)]))
    IN Except(body, Outcome(cache, fetched, cache, body.fetch_log, body.enrich_log))

\* faulty variant of fetch_threats_by_source: the threats fetched are stored
\* in the cache
fetch_threats_by_source_caching(cache, fetched, source, use_ai, env) ==
    LET body == IF source \notin SourceNames
                THEN Outcome(cache, fetched, <<>>, <<>>, <<>>)
                ELSE IF env.outs[1].raised
                THEN Raise(cache, fetched, env.outs, <<>>)
                ELSE Outcome(Enriched(env, 1, use_ai), fetched,
                             Enriched(env, 1, use_ai), env.outs,
                             EnrichCalls(env, 1, use_ai))
    IN Except(body, Outcome(cache, fetched, <<>>, body.fetch_log, body.enrich_log))

\* fetch_threats_by_source
fetch_threats_by_source(cache, fetched, source, use_ai, env) ==
    LET body == IF source \notin SourceNames
                THEN Outcome(cache, fetched, <<>>, <<>>, <<>>)
                ELSE IF env.outs[1].raised
                THEN Raise(cache, fetched, env.outs, <<>>)
                ELSE Outcome(cache, fetched, Enriched(env, 1, use_ai), env.outs,
                             EnrichCalls(env, 1, use_ai))
    IN Except(body, Outcome(cache, fetched, <<>>, body.fetch_log, body.enrich_log))

\* faulty variant of Matches: the query is not lower-cased
MatchesCaseSensitive(threat, query, severity) ==
    LET title == Lower(Get(threat, "title", <<>>))
        content == Lower(Get(threat, "full_content", <<>>))
        tags == Lower(JoinSpace(Get(threat, "tags", <<>>)))
    IN /\ \/ Contains(query, title)
          \/ Contains(query, content)
          \/ Contains(query, tags)
       /\ severity # <<>> => Lower(Get(threat, "severity", <<>>)) = Lower(severity)

\* the test of one threat in the loop of search_threats; severity = <<>> is
\* no severity filter (None, or the empty string)
Matches(threat, query, severity) ==
    LET query_lower == Lower(query)
        title == Lower(Get(threat, "title", <<>>))
        content == Lower(Get(threat, "full_content", <<>>))
        tags == Lower(JoinSpace(Get(threat, "tags", <<>>)))
    IN /\ \/ Contains(query_lower, title)
          \/ Contains(query_lower, content)
          \/ Contains(query_lower, tags)
       /\ severity # <<>> => Lower(Get(threat, "severity", <<>>)) = Lower(severity)

\* faulty variant of NeedsFetch: fetch_all_threats is called on every search
NeedsFetchAlways(cache) == TRUE

\* `if not self.threat_cache:` in search_threats and get_threat_summary
NeedsFetch(cache) == cache = <<>>

\* search_threats
search_threats(cache, fetched, t, query, severity, env) ==
    LET fetchd == IF NeedsFetch(cache)
                  THEN fetch_all_threats(cache, fetched, t, TRUE, env)
                  ELSE Outcome(cache, fetched, <<>>, <<>>, <<>>)
        Test(threat) == Matches(threat, query, severity)
        body == Outcome(fetchd.threat_cache, fetchd.last_fetch_time,
                        SelectSeq(fetchd.threat_cache, Test),
                        fetchd.fetch_log, fetchd.enrich_log)
    IN Except(body, Outcome(body.threat_cache, body.last_fetch_time, <<>>,
                            body.fetch_log, body.enrich_log))

\* faulty variant of get_cache_expiry_minutes: without max(0, ...)
get_cache_expiry_minutes_unclamped(fetched, t) ==
    IF fetched = <<>> THEN 0
    ELSE LET remaining == CacheDuration - (t - fetched[1])
         IN IF remaining >= 0
            THEN remaining \div SecondsPerMinute
            ELSE 0 - ((0 - remaining) \div SecondsPerMinute)

\* _get_cache_expiry_minutes: int() rounds towards zero
get_cache_expiry_minutes(fetched, t) ==
    IF fetched = <<>> THEN 0
    ELSE LET remaining == CacheDuration - (t - fetched[1])
             minutes == IF remaining >= 0
                        THEN remaining \div SecondsPerMinute
                        ELSE 0 - ((0 - remaining) \div SecondsPerMinute)
         IN IF minutes > 0 THEN minutes ELSE 0

\* the keys of severity_counts: critical, high, medium, low, each written
\* with its first letter
SeverityBuckets == {<<"c">>, <<"h">>, <<"m">>, <<"l">>}

\* the try block in the loop of get_threat_summary: the published_date
\* parses (a missing one, '', does not) and is later than t - 24 hours
IsRecent(threat, t) ==
    /\ "published_date" \in DOMAIN threat
    /\ DateTime(threat.published_date) > t - DayLength

\* faulty variant of SeverityCounts: the severity is compared as written
SeverityCountsCaseSensitive(cache) ==
    LET SeverityOf(threat) == Get(threat, "severity", <<"l">>)
    IN [b \in SeverityBuckets |->
           Cardinality({k \in DOMAIN cache : SeverityOf(cache[k]) = b})]

\* severity_counts at the end of the loop of get_threat_summary
SeverityCounts(cache) ==
    LET SeverityOf(threat) == Lower(Get(threat, "severity", <<"l">>))
    IN [b \in SeverityBuckets |->
           Cardinality({k \in DOMAIN cache : SeverityOf(cache[k]) = b})]

\* faulty variant of SourceCounts: a source is entered, never counted up
SourceCountsOfOne(cache) ==
    [src \in {Get(cache[k], "source", "Unknown") : k \in DOMAIN cache} |-> 1]

\* source_counts at the end of the loop of get_threat_summary
SourceCounts(cache) ==
    LET SourceOf(threat) == Get(threat, "source", "Unknown")
    IN [src \in {SourceOf(cache[k]) : k \in DOMAIN cache} |->
           Cardinality({k \in DOMAIN cache : SourceOf(cache[k]) = src})]

\* the dict get_threat_summary builds of the cache entry (cache, fetched)
Summary(cache, fetched, t) ==
    [total_threats |-> Len(cache),
        severity_breakdown |-> SeverityCounts(cache),
        source_breakdown |-> SourceCounts(cache),
        recent_24h |-> Cardinality({k \in DOMAIN cache : IsRecent(cache[k], t)}),
        last_updated |-> fetched,
        cache_expires_in_minutes |-> get_cache_expiry_minutes(fetched, t)]

\* the dict of the except branch of get_threat_summary
ErrorSummary ==
    [total_threats |-> 0, severity_breakdown |-> <<>>, source_breakdown |-> <<>>,
     recent_24h |-> 0, last_updated |-> <<>>]

\* faulty variant of get_threat_summary: the summary is always taken from a
\* cache fetched anew
get_threat_summary_refreshing(cache, fetched, t, env) ==
    LET fetchd == fetch_all_threats(<<>>, <<>>, t, TRUE, env)
        body == Outcome(fetchd.threat_cache, fetchd.last_fetch_time,
                        Summary(fetchd.threat_cache, fetchd.last_fetch_time, t),
                        fetchd.fetch_log, fetchd.enrich_log)
    IN Except(body, Outcome(body.threat_cache, body.last_fetch_time,
                            ErrorSummary, body.fetch_log, body.enrich_log))

\* get_threat_summary
get_threat_summary(cache, fetched, t, env) ==
    LET fetchd == IF NeedsFetch(cache)
                  THEN fetch_all_threats(cache, fetched, t, TRUE, env)
                  ELSE Outcome(cache, fetched, <<>>, <<>>, <<>>)
        body == Outcome(fetchd.threat_cache, fetchd.last_fetch_time,
                        Summary(fetchd.threat_cache, fetchd.last_fetch_time, t),
                        fetchd.fetch_log, fetchd.enrich_log)
    IN Except(body, Outcome(body.threat_cache, body.last_fetch_time,
                            ErrorSummary, body.fetch_log, body.enrich_log))

\* faulty variant of reset_entry: the list is emptied, the fetch time kept
reset_entry_keeping_time(cache, fetched) ==
    [threat_cache |-> <<>>, last_fetch_time |-> fetched]

\* the two assignments force_refresh begins with
reset_entry(cache, fetched) ==
    [threat_cache |-> <<>>, last_fetch_time |-> <<>>]

\* faulty variant of force_refresh: the cache entry is not reset
force_refresh_without_reset(cache, fetched, t, use_ai, env) ==
    fetch_all_threats(cache, fetched, t, use_ai, env)

\* force_refresh: the cache entry is reset, then fetch_all_threats
force_refresh(cache, fetched, t, use_ai, env) ==
    LET entry == reset_entry(cache, fetched)
    IN fetch_all_threats(entry.threat_cache, entry.last_fetch_time, t, use_ai, env)

---------------------------------------------------------------------------
(* The state machine *)

\* the coroutines of the manager that can be in flight at once
Tasks == {"a", "b"}

\* a task that runs no call
Idle == [pc |-> "idle"]

Init ==
    /\ threat_cache = <<>>
    /\ last_fetch_time = <<>>
    /\ now = 0
    /\ op = [name |-> "__init__"]
    /\ result = <<>>
    /\ fetch_log = <<>>
    /\ enrich_log = <<>>
    /\ tasks = [t \in Tasks |-> Idle]
    /\ threat_manager_instance = <<>>

\* how a call finds the cache entry on entry: Empty, or Populated and then
\* fresh or Stale (now - fetched_at >= cache_duration)
Found ==
    IF threat_cache = <<>> THEN "empty"
    ELSE IF last_fetch_time # <<>> /\ now - last_fetch_time[1] < CacheDuration
    THEN "fresh"
    ELSE "stale"

Returns(call, out) ==
    /\ threat_cache' = out.threat_cache
    /\ last_fetch_time' = out.last_fetch_time
    /\ result' = out.result
    /\ fetch_log' = out.fetch_log
    /\ enrich_log' = out.enrich_log
    /\ op' = [raised |-> out.raises] @@ call
    /\ UNCHANGED <<now, tasks, threat_manager_instance>>

\* the arguments the callers pass; a limit above what the world holds is as
\* good as one equal to it
LimitChoices(w) == {0, w.most}

SourceChoices == SourceNames \cup {UnknownSource}

QueryChoices == {<<>>, <<"r", "A">>}

SeverityChoices == {<<>>, <<"h">>}

\* fetch_all_threats(limit_per_source, use_ai); op keeps the two arguments
\* when `recorded`
FetchAllThreatsWith(w, recorded) ==
    \E limit_per_source \in LimitChoices(w), use_ai \in BOOLEAN :
      LET args == IF recorded
                  THEN [limit_per_source |-> limit_per_source,
                        use_ai |-> use_ai]
                  ELSE <<>>
          Call(env) ==
              Returns([name |-> "fetch_all_threats", found |-> Found] @@ args,
                      fetch_all_threats(threat_cache, last_fetch_time, now,
                                        use_ai, env))
      IN IF is_cache_valid(threat_cache, last_fetch_time, now)
         THEN Call(NoCalls)
         ELSE InSomeEnv(scrapers, w, limit_per_source, use_ai, Call)

FetchAllThreats(w) == FetchAllThreatsWith(w, FALSE)

FetchThreatsBySource(w) ==
    \E source \in SourceChoices, limit \in LimitChoices(w), use_ai \in BOOLEAN :
      LET Call(env) ==
              Returns([name |-> "fetch_threats_by_source", found |-> Found,
                       source |-> source],
                      fetch_threats_by_source(threat_cache, last_fetch_time,
                                              source, use_ai, env))
      IN IF source \in SourceNames
         THEN InSomeEnv(<<source>>, w, limit, use_ai, Call)
         ELSE Call(NoCalls)

SearchThreatsFor(w, queries, severities) ==
    \E query \in queries, severity \in severities :
      LET Call(env) ==
              Returns([name |-> "search_threats", found |-> Found,
                       query |-> query, severity |-> severity],
                      search_threats(threat_cache, last_fetch_time, now,
                                     query, severity, env))
      IN IF NeedsFetch(threat_cache)
         THEN InSomeEnv(scrapers, w, DefaultLimitPerSource, TRUE, Call)
         ELSE Call(NoCalls)

SearchThreats(w) == SearchThreatsFor(w, QueryChoices, SeverityChoices)

GetThreatSummary(w) ==
    LET Call(env) ==
            Returns([name |-> "get_threat_summary", found |-> Found],
                    get_threat_summary(threat_cache, last_fetch_time, now, env))
    IN IF NeedsFetch(threat_cache)
       THEN InSomeEnv(scrapers, w, DefaultLimitPerSource, TRUE, Call)
       ELSE Call(NoCalls)

ForceRefresh(w) ==
    \E use_ai \in BOOLEAN :
      LET Call(env) ==
              Returns([name |-> "force_refresh", found |-> Found],
                      force_refresh(threat_cache, last_fetch_time, now,
                                    use_ai, env))
      IN InSomeEnv(scrapers, w, DefaultLimitPerSource, use_ai, Call)

\* the wall clock advances by `step` seconds
Advance(step) ==
    /\ now + step <= MaxTime
    /\ now' = now + step
    /\ op' = [name |-> "tick"]
    /\ result' = <<>>
    /\ fetch_log' = <<>>
    /\ enrich_log' = <<>>
    /\ UNCHANGED <<threat_cache, last_fetch_time, tasks,
                   threat_manager_instance>>

Tick == Advance(ClockStep)

Next ==
    \/ FetchAllThreats(OrdinaryWorld)
    \/ FetchThreatsBySource(SourceWorld)
    \/ SearchThreats(OrdinaryWorld)
    \/ ForceRefresh(OrdinaryWorld)
    \/ Tick

Spec == Init /\ [][Next]_vars

\* one call on a newly constructed manager
PipelineNext ==
    /\ op.name = "__init__"
    /\ \/ FetchAllThreats(PipelineWorld)
       \/ FetchThreatsBySource(PipelineWorld)

PipelineSpec == Init /\ [][PipelineNext]_vars

---------------------------------------------------------------------------
(* FailureSpec: one call of any of the five coroutines on a newly          *)
(* constructed manager, with scrapers that may raise and enrichments that  *)
(* may fail.                                                               *)

FailingWorld == World(MaxBatch, OneDate, TRUE, TRUE)

FailureNext ==
    /\ op.name = "__init__"
    /\ \/ FetchAllThreats(FailingWorld)
       \/ FetchThreatsBySource(FailingWorld)
       \/ SearchThreats(FailingWorld)
       \/ GetThreatSummary(FailingWorld)
       \/ ForceRefresh(FailingWorld)

FailureSpec == Init /\ [][FailureNext]_vars

---------------------------------------------------------------------------
(* LifecycleSpec: sequences of calls of all five coroutines on one         *)
(* manager, one call running at a time, while the clock advances.          *)

LifecycleNext ==
    \/ FetchAllThreats(OrdinaryWorld)
    \/ FetchThreatsBySource(OrdinaryWorld)
    \/ SearchThreatsFor(OrdinaryWorld, {<<"r", "A">>}, {<<>>})
    \/ GetThreatSummary(OrdinaryWorld)
    \/ ForceRefresh(OrdinaryWorld)
    \/ Tick

LifecycleSpec == Init /\ [][LifecycleNext]_vars

---------------------------------------------------------------------------
(* ScraperSpec: one fetch_threats call on one of the four scrapers, for    *)
(* every live feed and limit within the bounds.                            *)

\* SingletonSpec: the callers of a process get their manager from
\* get_threat_manager, with whatever api key, and call fetch_all_threats on
\* it as time passes.  threat_cache and last_fetch_time are the fields of the
\* manager get_threat_manager hands out

\* the api keys a caller may pass: None, or one of two keys
ApiKeys == {<<>>, <<"k1">>, <<"k2">>}

\* the id-th ThreatIntelligenceManager constructed in the process
ThreatIntelligenceManager(id, openai_api_key) ==
    [id |-> id, openai_api_key |-> openai_api_key]

\* faulty variant of get_threat_manager: a manager is constructed on every
\* call
get_threat_manager_constructing(instance, openai_api_key) ==
    <<ThreatIntelligenceManager(IF instance = <<>> THEN 1
                                ELSE instance[1].id + 1, openai_api_key)>>

\* get_threat_manager(openai_api_key): the new value of
\* _threat_manager_instance, which is also what the call returns
get_threat_manager(instance, openai_api_key) ==
    IF instance = <<>> THEN <<ThreatIntelligenceManager(1, openai_api_key)>>
    ELSE instance

GetThreatManager ==
    \E openai_api_key \in ApiKeys :
      LET got == get_threat_manager(threat_manager_instance, openai_api_key)
          constructed == got # threat_manager_instance
      IN /\ threat_manager_instance' = got
         /\ threat_cache' = IF constructed THEN <<>> ELSE threat_cache
         /\ last_fetch_time' = IF constructed THEN <<>> ELSE last_fetch_time
         /\ result' = got
         /\ op' = [name |-> "get_threat_manager",
                   openai_api_key |-> openai_api_key,
                   instance |-> threat_manager_instance]
         /\ fetch_log' = <<>>
         /\ enrich_log' = <<>>
         /\ UNCHANGED <<now, tasks>>

SingletonNext ==
    \/ GetThreatManager
    \/ /\ threat_manager_instance # <<>>
       /\ FetchAllThreats(OrdinaryWorld)
    \/ Tick

SingletonSpec == Init /\ [][SingletonNext]_vars

\* ArgumentsSpec: fetch_all_threats called again and again with every
\* limit_per_source and use_ai, the arguments kept in op, as time passes
ArgumentsWorld == World(MaxItems, OneDate, TRUE, FALSE)

ArgumentsNext ==
    \/ FetchAllThreatsWith(ArgumentsWorld, TRUE)
    \/ Tick

ArgumentsSpec == Init /\ [][ArgumentsNext]_vars

ScraperLimits == 0..MaxLimit \cup {DefaultLimit}

ScraperFetchThreats ==
    \E s \in SourceNames, limit \in ScraperLimits, live \in LiveFeeds :
        /\ op' = [name |-> "scraper.fetch_threats", source |-> s,
                  limit |-> limit, live |-> live]
        /\ result' = scraper_fetch_threats(s, live, limit)
        /\ UNCHANGED <<threat_cache, last_fetch_time, now, fetch_log, enrich_log,
                       tasks, threat_manager_instance>>

ScraperNext ==
    /\ op.name = "__init__"
    /\ ScraperFetchThreats

ScraperSpec == Init /\ [][ScraperNext]_vars

---------------------------------------------------------------------------
(* EnricherSpec: one enrich_threat call of the processor, with or without  *)
(* a client, for every combination of replies to its four sub-calls.       *)

EnricherReplies ==
    [quick_summary : {Reply("error", 0), Reply("lines", 1)},
     iocs : Replies, affected_systems : Replies, recommendations : Replies]

EnricherThreats == {RawThreat(s, 1, <<1>>) : s \in SourceNames}

\* the texts of the threats the scrapers make
EnricherFacts ==
    {Facts(cves, systems) : cves \in MentionChoices, systems \in MentionChoices}

\* enrich_threat(threat) on a threat with a text of `texts`; threat_after is
\* the dict passed in as the call leaves it
EnrichThreatOf(texts) ==
    \E client \in BOOLEAN, replies \in EnricherReplies, facts \in texts,
       threat \in EnricherThreats :
        /\ op' = [name |-> "processor.enrich_threat", client |-> client,
                  replies |-> replies, facts |-> facts, threat |-> threat,
                  calls |-> completions_create_calls(client),
                  threat_after |->
                      enrich_threat_dicts(client, replies, facts,
                                          threat).objects.input]
        /\ result' = <<processor_enrich_threat(client, replies, facts, threat)>>
        /\ UNCHANGED <<threat_cache, last_fetch_time, now, fetch_log, enrich_log,
                       tasks, threat_manager_instance>>

EnrichThreat == EnrichThreatOf(EnricherFacts)

EnricherNext ==
    /\ op.name = "__init__"
    /\ EnrichThreat

EnricherSpec == Init /\ [][EnricherNext]_vars

\* AnyDictSpec: one enrich_threat call on any dict, one with a full_content
\* that is not a string included
AnyDictNext ==
    /\ op.name = "__init__"
    /\ EnrichThreatOf(EnricherFacts \cup {NotText})

AnyDictSpec == Init /\ [][AnyDictNext]_vars

---------------------------------------------------------------------------
(* InterleavedSpec: the coroutines of two tasks on one manager.  A task    *)
(* gives way to the other only at an await that can suspend: the await of  *)
(* enrich_threat in the loop of fetch_all_threats, reached when use_ai is  *)
(* set and the scraper returned threats.  All other code of a call runs in *)
(* the step that reached it.                                               *)

\* what scraper s may return to one call: CISA a threat of the older date,
\* CERT-IN one of the newer date, each of them possibly nothing
InterleavedReturns(s) ==
    CASE s = "CISA" -> {<<>>, <<RawThreat(s, 1, <<1>>)>>}
      [] s = "CERT-IN" -> {<<>>, <<RawThreat(s, 1, <<2>>)>>}
      [] OTHER -> {<<>>}

\* the calls the tasks make, with their arguments
InterleavedCalls ==
    {[name |-> "fetch_all_threats", use_ai |-> use_ai] : use_ai \in BOOLEAN}
        \cup {[name |-> "force_refresh", use_ai |-> use_ai] : use_ai \in BOOLEAN}
        \cup {[name |-> "search_threats", use_ai |-> TRUE,
                query |-> <<"r", "A">>, severity |-> <<>>],
               [name |-> "get_threat_summary", use_ai |-> TRUE]}

\* whether the call, entered on the cache entry (cache, fetched) at time t,
\* goes into the loop over the scrapers
Fetches(call, cache, fetched, t) ==
    CASE call.name \in {"fetch_all_threats", "force_refresh"} ->
           ~is_cache_valid(cache, fetched, t)
      [] OTHER -> NeedsFetch(cache) /\ ~is_cache_valid(cache, fetched, t)

\* what the call returns once the cache entry is (cache, fetched)
CallReturn(call, cache, fetched, t) ==
    CASE call.name = "search_threats" ->
           LET Test(threat) == Matches(threat, call.query, call.severity)
           IN SelectSeq(cache, Test)
      [] call.name = "get_threat_summary" -> Summary(cache, fetched, t)
      [] OTHER -> cache

\* a task suspended in the loop of fetch_all_threats: the call it serves, the
\* local all_threats and the number of scrapers gone through
Collecting(call, all_threats, visited) ==
    [pc |-> "collecting", call |-> call, all_threats |-> all_threats,
     visited |-> visited]

\* a task that left the loop with the local all_threats
Collected(call, all_threats) ==
    [pc |-> "collected", call |-> call, all_threats |-> all_threats,
     visited |-> Len(scrapers)]

\* where the loop can next stop when it goes on after `visited` scrapers
\* with the local all_threats: suspended after a scraper whose threats are
\* enriched, or past the last scraper
RECURSIVE Stops(_, _, _)
Stops(call, all_threats, visited) ==
    IF visited = Len(scrapers) THEN {Collected(call, all_threats)}
    ELSE LET s == scrapers[visited + 1]
             After(threats) ==
                 all_threats \o
                     Contribution(Env(<<FetchOutcome(s, FALSE, threats)>>, {}),
                                  1, call.use_ai)
         IN UNION {IF call.use_ai /\ threats # <<>>
                   THEN {Collecting(call, After(threats), visited + 1)}
                   ELSE Stops(call, After(threats), visited + 1) :
                       threats \in InterleavedReturns(s)}

\* task t, running its call on the cache entry (cache, fetched), arrives at
\* `stop`: suspended, or past the loop, where fetch_all_threats sorts and
\* publishes and the call returns
Arrives(t, label, cache, fetched, stop) ==
    LET entry == publish(stop.all_threats, fetched, now)
        call == stop.call
    IN IF stop.pc = "collecting"
       THEN /\ tasks' = [tasks EXCEPT ![t] = stop]
            /\ threat_cache' = cache
            /\ last_fetch_time' = fetched
            /\ result' = <<>>
            /\ op' = [task |-> t, step |-> "await"] @@ label @@ call
       ELSE /\ tasks' = [tasks EXCEPT ![t] = Idle]
            /\ threat_cache' = entry.threat_cache
            /\ last_fetch_time' = entry.last_fetch_time
            /\ result' = CallReturn(call, entry.threat_cache,
                                    entry.last_fetch_time, now)
            /\ op' = [task |-> t, step |-> "publish",
                      all_threats |-> stop.all_threats] @@ label @@ call

\* task t enters a call and runs it to its return or to the first await that
\* suspends it.  force_refresh first resets the cache entry
BeginCall(t) ==
    /\ tasks[t].pc = "idle"
    /\ \E call \in InterleavedCalls :
         LET entry == IF call.name = "force_refresh"
                      THEN reset_entry(threat_cache, last_fetch_time)
                      ELSE [threat_cache |-> threat_cache,
                            last_fetch_time |-> last_fetch_time]
             cache == entry.threat_cache
             fetched == entry.last_fetch_time
             label == [entered |-> TRUE, found |-> Found]
         IN IF Fetches(call, cache, fetched, now)
            THEN \E stop \in Stops(call, <<>>, 0) :
                     Arrives(t, label, cache, fetched, stop)
            ELSE /\ tasks' = tasks
                 /\ threat_cache' = cache
                 /\ last_fetch_time' = fetched
                 /\ result' = CallReturn(call, cache, fetched, now)
                 /\ op' = [task |-> t, step |-> "return"] @@ label @@ call
    /\ UNCHANGED <<now, fetch_log, enrich_log, threat_manager_instance>>

\* the suspended task t goes on with the loop
Resume(t) ==
    /\ tasks[t].pc = "collecting"
    /\ \E stop \in Stops(tasks[t].call, tasks[t].all_threats, tasks[t].visited) :
           Arrives(t, [entered |-> FALSE], threat_cache, last_fetch_time, stop)
    /\ UNCHANGED <<now, fetch_log, enrich_log, threat_manager_instance>>

\* an idle task calls fetch_threats_by_source, use_ai at its default, which
\* runs to its return: it reads and writes nothing of the manager's state
BySourceCall ==
    /\ \E t \in Tasks : tasks[t].pc = "idle"
    /\ \E source \in SourceChoices :
         \E threats \in IF source \in SourceNames
                        THEN InterleavedReturns(source) ELSE {<<>>} :
           LET use_ai == TRUE
               env == Env(<<FetchOutcome(source, FALSE, threats)>>, {})
               out == fetch_threats_by_source(threat_cache, last_fetch_time,
                                              source, use_ai, env)
           IN /\ threat_cache' = out.threat_cache
              /\ last_fetch_time' = out.last_fetch_time
              /\ result' = out.result
              /\ op' = [name |-> "fetch_threats_by_source",
                        step |-> "return", entered |-> TRUE,
                        found |-> Found, source |-> source,
                        use_ai |-> use_ai]
    /\ UNCHANGED <<now, fetch_log, enrich_log, tasks,
                   threat_manager_instance>>

InterleavedNext ==
    \/ \E t \in Tasks : BeginCall(t)
    \/ \E t \in Tasks : Resume(t)
    \/ BySourceCall
    \/ Tick

InterleavedSpec == Init /\ [][InterleavedNext]_vars

---------------------------------------------------------------------------
(* ReaderSpec: one call of a reader, search_threats or get_threat_summary, *)
(* on a cache entry earlier calls may have left.                           *)

\* the threats a cache may hold: one of each source, the BleepingComputer one
\* of a later date, and a dict that has none of the keys the readers get
ReaderThreats ==
    {RawThreat(s, 1, <<1>>) : s \in SourceNames \ {"BleepingComputer"}}
        \cup {RawThreat("BleepingComputer", 1, <<2>>), [feed_id |-> 1],
              [feed_id |-> 2, severity |-> <<"x">>]}

\* caches as fetch_all_threats leaves them: sorted
ReaderCaches ==
    {xs \in UNION {[1..n -> ReaderThreats] : n \in 0..MaxCached} :
        SortByDateDesc(xs) = xs}

\* the times a reader is called at, the cache having been fetched at 0
ReaderTimes ==
    {0, 1, SecondsPerMinute, CacheDuration - SecondsPerMinute,
     CacheDuration - SecondsPerMinute + 1, CacheDuration - 1, CacheDuration,
     CacheDuration + 1, 2 * CacheDuration}

ReaderQueryChoices == QueryChoices \cup {<<"r", " ", "a">>, <<"x">>}

ReaderSeverityChoices == SeverityChoices \cup {<<"H">>, <<"l">>}

ReaderInit ==
    /\ threat_cache \in ReaderCaches
    /\ last_fetch_time \in IF threat_cache = <<>> THEN {<<>>, <<0>>} ELSE {<<0>>}
    /\ now \in ReaderTimes
    /\ op = [name |-> "given"]
    /\ result = <<>>
    /\ fetch_log = <<>>
    /\ enrich_log = <<>>
    /\ tasks = [t \in Tasks |-> Idle]
    /\ threat_manager_instance = <<>>

ReaderNext ==
    /\ op.name = "given"
    /\ \/ SearchThreatsFor(OrdinaryWorld, ReaderQueryChoices, ReaderSeverityChoices)
       \/ GetThreatSummary(OrdinaryWorld)

ReaderSpec == ReaderInit /\ [][ReaderNext]_vars

----------------------------------------------------------------------------
(* Properties.  They are stated over the recorded last call: op (the call  *)
(* and how it found the cache), result, fetch_log and enrich_log.          *)

\* the registry names of the scrapers the last call fetched from, in order
CalledSources == [i \in DOMAIN fetch_log |-> fetch_log[i].source]

\* the number of raw threats the scrapers returned to the last call
Returned == SeqSum([i \in DOMAIN fetch_log |-> Len(fetch_log[i].threats)])

\* an item carries the enrichment of enrich_threat
IsEnriched(x) == EnrichmentKeys \subseteq DOMAIN x

\* the raw threat an item was made of
Raw(x) == [key \in DOMAIN x \ EnrichmentKeys |-> x[key]]

HasDate(x) == "published_date" \in DOMAIN x

\* descending by published_date, the items without one last
SortedByDate(xs) ==
    \A i, j \in DOMAIN xs :
        (i < j /\ HasDate(xs[j])) =>
            /\ HasDate(xs[i])
            /\ xs[i].published_date >= xs[j].published_date

\* C1: fetch_all_threats called while the cache is populated and not stale
\* calls no scraper and no enrichment, leaves threat_cache and
\* last_fetch_time unchanged and returns exactly the cached list.
C1_FreshCacheIsServed ==
    [][(op'.name = "fetch_all_threats" /\ Found = "fresh") =>
           /\ fetch_log' = <<>>
           /\ enrich_log' = <<>>
           /\ UNCHANGED <<threat_cache, last_fetch_time>>
           /\ result' = threat_cache]_vars

\* a fetch_all_threats answered from a cache of enriched threats that is half
\* a cache duration old
C1_Witness ==
    /\ op.name = "fetch_all_threats"
    /\ op.found = "fresh"
    /\ fetch_log = <<>>
    /\ result # <<>>
    /\ result = threat_cache
    /\ IsEnriched(result[1])
    /\ now > last_fetch_time[1]

\* C2: force_refresh fetches from every registered scraper whatever the
\* cache entry was before, a fresh one included; what it returns is the
\* outcome of that fetch, stamped with the time of the call.
C2_ForceRefreshFetches ==
    op.name = "force_refresh" =>
        /\ CalledSources = scrapers
        /\ last_fetch_time = <<now>>
        /\ result = threat_cache
        /\ Len(result) = Returned

\* a force_refresh called on a fresh cache
C2_Witness ==
    /\ op.name = "force_refresh"
    /\ op.found = "fresh"
    /\ CalledSources = scrapers
    /\ result # <<>>

\* C3: a refreshing fetch_all_threats that collects no threat from any
\* scraper while a previous non-empty cache exists returns the previous
\* cache contents and keeps them in the cache.
C3_PreviousCacheOnOutage ==
    [][(/\ op'.name = "fetch_all_threats"
        /\ Found = "stale"
        /\ CalledSources' = scrapers
        /\ Returned' = 0) =>
           /\ result' = threat_cache
           /\ threat_cache' = threat_cache]_vars

\* C4: the list a refreshing fetch_all_threats returns and stores is sorted
\* by published_date, descending, the items without a published_date last;
\* so the cache is sorted this way in every state.
C4_SortedByDate ==
    /\ SortedByDate(threat_cache)
    /\ op.name = "fetch_all_threats" => SortedByDate(result)

\* a cache where the sort moved a dated BleepingComputer threat in front of
\* an undated CISA threat that was collected first
C4_Witness ==
    /\ op.name = "fetch_all_threats"
    /\ Len(threat_cache) = 2
    /\ result = threat_cache
    /\ threat_cache[1].source = "BleepingComputer"
    /\ HasDate(threat_cache[1])
    /\ threat_cache[2].source = "CISA"
    /\ ~HasDate(threat_cache[2])

\* C5: fetch_threats_by_source with an unregistered name returns something
\* the caller can tell from a successful fetch that returned no threats,
\* which returns the empty list.
C5_UnknownSourceIsTold ==
    (op.name = "fetch_threats_by_source" /\ op.source \notin SourceNames) =>
        result # <<>>

\* C6: fetch_threats_by_source leaves threat_cache and last_fetch_time
\* unchanged whatever its arguments and whatever the scraper and the
\* enrichment do, and what it returns is made of what the one scraper it
\* calls returned, never of the cache: a registered source is fetched live,
\* once, also when the cache is fresh.
C6_BySourceBypassesCache ==
    [][op'.name = "fetch_threats_by_source" =>
           /\ UNCHANGED <<threat_cache, last_fetch_time>>
           /\ IF op'.source \in SourceNames
              THEN /\ CalledSources' = <<op'.source>>
                   /\ Len(result') = Len(fetch_log'[1].threats)
                   /\ \A n \in DOMAIN result' :
                          Raw(result'[n]) = fetch_log'[1].threats[n]
              ELSE /\ fetch_log' = <<>>
                   /\ result' = <<>>]_vars

\* a fetch by source on a fresh cache that holds a threat of another source
C6_Witness ==
    /\ op.name = "fetch_threats_by_source"
    /\ op.found = "fresh"
    /\ op.source \in SourceNames
    /\ CalledSources = <<op.source>>
    /\ result # <<>>
    /\ threat_cache[1].source # op.source

\* C7: in a refreshing fetch_all_threats a scraper that raises adds no
\* threat and stops nothing: every scraper is still called, and every threat
\* the other scrapers returned is in the result and in the cache.
C7_RaisingSourceIsSkipped ==
    (op.name = "fetch_all_threats" /\ fetch_log # <<>>) =>
        /\ CalledSources = scrapers
        /\ \A i \in DOMAIN fetch_log :
               IF fetch_log[i].raised
               THEN \A k \in DOMAIN result :
                        result[k].source # fetch_log[i].source
               ELSE \A n \in DOMAIN fetch_log[i].threats :
                        /\ \E k \in DOMAIN result :
                               Raw(result[k]) = fetch_log[i].threats[n]
                        /\ \E k \in DOMAIN threat_cache :
                               Raw(threat_cache[k]) = fetch_log[i].threats[n]

\* a fetch where a scraper raised and one called after it returned threats
C7_Witness ==
    /\ op.name = "fetch_all_threats"
    /\ \E i, j \in DOMAIN fetch_log :
           /\ i < j
           /\ fetch_log[i].raised
           /\ Len(fetch_log[j].threats) = MaxItems
    /\ Len(result) = MaxItems

\* C8: with use_ai, a threat whose enrichment fails stays in the result,
\* unenriched and in its place; each scraper adds to the result of
\* fetch_all_threats and fetch_threats_by_source as many items as it
\* returned raw threats, whichever enrichments fail.
C8_EnrichmentFailureKeepsThreat ==
    (op.name \in {"fetch_all_threats", "fetch_threats_by_source"}
         /\ fetch_log # <<>>) =>
        /\ \A i \in DOMAIN fetch_log :
               Cardinality({k \in DOMAIN result :
                               result[k].source = fetch_log[i].source})
                   = Len(fetch_log[i].threats)
        /\ \A e \in DOMAIN enrich_log :
               \E k \in DOMAIN result :
                   /\ result[k].source = enrich_log[e].source
                   /\ result[k].feed_id = enrich_log[e].feed_id
                   /\ IsEnriched(result[k]) <=> enrich_log[e].ok
        /\ op.name = "fetch_threats_by_source" =>
               /\ \A n \in DOMAIN result :
                      Raw(result[n]) = fetch_log[1].threats[n]
               /\ \A e \in DOMAIN enrich_log :
                      IsEnriched(result[e]) <=> enrich_log[e].ok

\* a fetch by source of two threats where the enrichment of the first failed
\* and that of the second did not
C8_Witness ==
    /\ op.name = "fetch_threats_by_source"
    /\ Len(result) = 2
    /\ Len(enrich_log) = 2
    /\ ~enrich_log[1].ok
    /\ ~IsEnriched(result[1])
    /\ IsEnriched(result[2])

\* C9: a refreshing fetch_all_threats returns and stores the threats of all
\* scrapers, none dropped and none merged: as many items as the scrapers
\* returned in total, threats of different scrapers with the same feed_id
\* included, so the cache is non-empty when some scraper returned a threat.
C9_AllThreatsKept ==
    (op.name = "fetch_all_threats" /\ fetch_log # <<>>) =>
        /\ Len(result) = Returned
        /\ Len(threat_cache) = Returned

\* a result that holds two threats of different scrapers with one feed_id
C9_Witness ==
    /\ op.name = "fetch_all_threats"
    /\ Len(result) = 2
    /\ result[1].feed_id = result[2].feed_id
    /\ result[1].source # result[2].source

\* C10: search_threats calls fetch_all_threats exactly when the cache is
\* empty at the call; on a non-empty cache, a stale one included, it calls no
\* scraper, leaves threat_cache and last_fetch_time unchanged and answers
\* from the cached threats.
C10_SearchFetchesOnlyWhenEmpty ==
    [][op'.name = "search_threats" =>
           IF Found = "empty"
           THEN CalledSources' = scrapers
           ELSE /\ fetch_log' = <<>>
                /\ enrich_log' = <<>>
                /\ UNCHANGED <<threat_cache, last_fetch_time>>
                /\ \A k \in DOMAIN result' :
                       \E j \in DOMAIN threat_cache :
                           result'[k] = threat_cache[j]]_vars

\* a search answered from a stale cache
C10_Witness ==
    /\ op.name = "search_threats"
    /\ op.found = "stale"
    /\ fetch_log = <<>>
    /\ result # <<>>
    /\ last_fetch_time # <<now>>

\* a field of a cached item as search reads it: lower-cased, the empty
\* string when the item has no such field
FieldLower(x, key) == IF key \in DOMAIN x THEN Lower(x[key]) ELSE <<>>

\* the lower-cased tags of an item, joined by single spaces
TagsLower(x) == IF "tags" \in DOMAIN x THEN Lower(JoinSpace(x.tags)) ELSE <<>>

\* C11: search_threats returns exactly the cached items for which the
\* lower-cased query is a substring of the lower-cased title, full_content or
\* space-joined tags and, when a severity filter is given, whose severity
\* equals the filter case-insensitively; the result keeps cache order.
C11_SearchReturnsMatches ==
    op.name = "search_threats" =>
        LET Wanted(x) ==
                /\ \E field \in {FieldLower(x, "title"),
                                  FieldLower(x, "full_content"), TagsLower(x)} :
                       Contains(Lower(op.query), field)
                /\ \/ op.severity = <<>>
                   \/ FieldLower(x, "severity") = Lower(op.severity)
        IN result = SelectSeq(threat_cache, Wanted)

\* a search with an upper-case letter in the query and a severity filter
\* that returns the second of two cached items, whose severity is written
\* in the other case
C11_Witness ==
    /\ op.name = "search_threats"
    /\ op.found # "empty"
    /\ op.query = <<"r", "A">>
    /\ op.severity = <<"h">>
    /\ Len(threat_cache) = 2
    /\ result = <<threat_cache[2]>>
    /\ threat_cache[2].severity = <<"H">>

\* C12: get_threat_summary reports total_threats equal to the number of
\* cached items and a source_breakdown with one key per source value seen
\* (Unknown for an item without one), whose counts are the numbers of items
\* of each source and sum to total_threats.
C12_SummaryCountsSources ==
    op.name = "get_threat_summary" =>
        LET Seen(x) == IF "source" \in DOMAIN x THEN x.source ELSE "Unknown"
            breakdown == result.source_breakdown
        IN /\ result.total_threats = Len(threat_cache)
           /\ DOMAIN breakdown = {Seen(threat_cache[k]) : k \in DOMAIN threat_cache}
           /\ \A src \in DOMAIN breakdown :
                  breakdown[src] =
                      Cardinality({k \in DOMAIN threat_cache :
                                      Seen(threat_cache[k]) = src})
           /\ Sum(breakdown, DOMAIN breakdown) = result.total_threats

\* a summary of a cache that holds two threats of one source and nothing else
C12_Witness ==
    /\ op.name = "get_threat_summary"
    /\ op.found # "empty"
    /\ result.total_threats = MaxCached
    /\ DOMAIN result.source_breakdown = {"CISA"}
    /\ result.source_breakdown["CISA"] = MaxCached

\* C13: the cache_expires_in_minutes that get_threat_summary reports is never
\* negative, is at most the cache duration in minutes, and is 0 whenever the
\* cache entry it reports on has no fetch time or is stale (now -
\* last_fetch_time >= cache_duration); for an entry never fetched
\* _get_cache_expiry_minutes gives 0.
C13_ExpiryMinutesInRange ==
    /\ get_cache_expiry_minutes(<<>>, now) = 0
    /\ op.name = "get_threat_summary" =>
           LET minutes == result.cache_expires_in_minutes
           IN /\ minutes >= 0
              /\ minutes * SecondsPerMinute <= CacheDuration
              /\ (last_fetch_time = <<>>
                     \/ now - last_fetch_time[1] >= CacheDuration) => minutes = 0

\* a summary of a cache that is two cache durations old
C13_Witness ==
    /\ op.name = "get_threat_summary"
    /\ op.found = "stale"
    /\ now - last_fetch_time[1] > CacheDuration
    /\ result.cache_expires_in_minutes = 0

\* the five public coroutines of the manager
ManagerCalls ==
    {"fetch_all_threats", "fetch_threats_by_source", "search_threats",
     "get_threat_summary", "force_refresh"}

\* C14: no manager call raises to its caller because a scraper raised or an
\* enrichment failed: whichever scrapers raise and whichever enrichments
\* fail, the call returns a list (possibly empty) or a summary.
C14_NoCallRaises ==
    op.name \in ManagerCalls =>
        /\ ~op.raised
        /\ IF op.name = "get_threat_summary"
           THEN result.total_threats = Len(threat_cache)
           ELSE DOMAIN result = 1..Len(result)

\* a fetch by source whose scraper raised, and a summary for which every
\* scraper raised, are both calls that returned
C14_Witness ==
    /\ op.name \in {"fetch_threats_by_source", "get_threat_summary"}
    /\ fetch_log # <<>>
    /\ \A i \in DOMAIN fetch_log : fetch_log[i].raised
    /\ ~op.raised

\* C15: when the live retrieval of a scraper fails (an error, or a feed
\* without entries) fetch_threats(limit) returns the fallback list of its
\* source, truncated to limit, for each of the four scrapers.
C15_FallbackOnFailure ==
    (/\ op.name = "scraper.fetch_threats"
     /\ op.live.error \/ op.live.entries = <<>>) =>
        /\ Len(result) = IF op.limit < FallbackSize(op.source)
                         THEN op.limit ELSE FallbackSize(op.source)
        /\ \A n \in DOMAIN result : result[n] = FallbackThreat(op.source, n)

\* C16: the item enrich_threat returns has the four enrichment fields, with
\* at most 10 iocs, 5 affected_systems and 5 recommendations, whichever of
\* the four sub-calls succeed or fail.
C16_FourFieldsWithinCaps ==
    op.name = "processor.enrich_threat" =>
        \A n \in DOMAIN result :
            /\ IsEnriched(result[n])
            /\ Len(result[n].iocs) <= 10
            /\ Len(result[n].affected_systems) <= 5
            /\ Len(result[n].recommendations) <= 5

\* the reply to extract_iocs is longer than its cap while the other two list
\* sub-calls fail, and the item comes back with exactly ten iocs
C16_Witness ==
    /\ op.name = "processor.enrich_threat"
    /\ op.client
    /\ op.replies.iocs.kind = "lines" /\ op.replies.iocs.n > 10
    /\ op.replies.affected_systems.kind = "error"
    /\ op.replies.recommendations.kind = "error"
    /\ op.facts.systems > 5
    /\ Len(result) = 1
    /\ Len(result[1].iocs) = 10
    /\ Len(result[1].affected_systems) = 5

\* C17: fetch_all_threats takes the cache as fresh exactly when it is not
\* empty, has a fetch time and is less than one hour (3600 s) old; at an age
\* of one hour or more, equality included, the call fetches from every
\* source and stamps last_fetch_time with the current time.
C17_FreshExactlyBelowOneHour ==
    [][op'.name = "fetch_all_threats" =>
           IF /\ threat_cache # <<>>
              /\ last_fetch_time # <<>>
              /\ now - last_fetch_time[1] < 3600
           THEN /\ fetch_log' = <<>>
                /\ UNCHANGED <<threat_cache, last_fetch_time>>
           ELSE /\ CalledSources' = scrapers
                /\ last_fetch_time' = <<now>>]_vars

\* a fetch_all_threats that found a populated cache exactly one hour old (the
\* clock of Spec stops at one hour) and fetched again
C17_Witness ==
    /\ op.name = "fetch_all_threats"
    /\ op.found = "stale"
    /\ now = 3600
    /\ CalledSources = scrapers
    /\ last_fetch_time = <<now>>
    /\ threat_cache # <<>>

\* C18: of two fetch_all_threats calls triggered together (no time passes
\* between them) on an empty or stale cache, only the first fetches from the
\* sources; the second calls no scraper and returns what the first returned.
C18_SecondCallReusesFirst ==
    [][(/\ op.name = "fetch_all_threats"
        /\ op.found \in {"empty", "stale"}
        /\ op'.name = "fetch_all_threats"
        /\ now' = now) =>
           /\ fetch_log' = <<>>
           /\ result' = result]_vars

\* the threats of xs that are in ys, with their number
SameThreats(xs, ys) ==
    /\ Len(xs) = Len(ys)
    /\ \A i \in DOMAIN xs : \E j \in DOMAIN ys : xs[i] = ys[j]
    /\ \A j \in DOMAIN ys : \E i \in DOMAIN xs : xs[i] = ys[j]

\* C19: the cache entry is replaced in one step, list and fetch time
\* together.  While refreshes of two tasks interleave with readers, every
\* step that stores a non-empty list stores the sorted whole of what one task
\* had collected when it left the loop over the scrapers, enriched throughout
\* if the call asked for it, and sets the fetch time to the current time in
\* the same step; and what a reader returns is taken from such an entry.
C19_CacheReplacedAtomically ==
    [][/\ (threat_cache' # threat_cache /\ threat_cache' # <<>>) =>
              /\ last_fetch_time' = <<now>>
              /\ SortedByDate(threat_cache')
              /\ op'.step = "publish"
              /\ SameThreats(threat_cache', op'.all_threats)
              /\ \A k \in DOMAIN threat_cache' :
                     IsEnriched(threat_cache'[k]) = op'.use_ai
       /\ (threat_cache' = <<>> /\ threat_cache # <<>>) =>
              last_fetch_time' \in {<<>>, <<now>>}
       /\ (last_fetch_time' # last_fetch_time /\ last_fetch_time' # <<>>) =>
              /\ last_fetch_time' = <<now>>
              /\ op'.step = "publish"
       /\ (op'.name \in {"fetch_all_threats", "search_threats"}
              /\ op'.step = "return") =>
              /\ UNCHANGED <<threat_cache, last_fetch_time>>
              /\ SortedByDate(result')
              /\ \A k \in DOMAIN result' :
                     \E j \in DOMAIN threat_cache : result'[k] = threat_cache[j]
              /\ op'.name = "fetch_all_threats" => result' = threat_cache
       /\ (op'.name = "get_threat_summary" /\ op'.step = "return") =>
              /\ UNCHANGED <<threat_cache, last_fetch_time>>
              /\ result'.total_threats = Len(threat_cache)
              /\ result'.last_updated = last_fetch_time]_vars

\* a reader is answered from the old list, still two threats in date order,
\* while the other task is in the middle of a refresh with a threat already
\* collected
C19_Witness ==
    /\ op.name = "search_threats"
    /\ op.step = "return"
    /\ Len(result) = 2
    /\ result = threat_cache
    /\ \E t \in Tasks :
           /\ t # op.task
           /\ tasks[t].pc = "collecting"
           /\ tasks[t].visited < Len(scrapers)
           /\ Len(tasks[t].all_threats) = 1
           /\ tasks[t].all_threats # threat_cache

\* C20 as stated: the cache entry is written by one code path only, the end
\* of fetch_all_threats; every step that changes threat_cache or
\* last_fetch_time is one in which fetch_all_threats publishes.
C20_OnlyFetchAllWrites ==
    [][<<threat_cache, last_fetch_time>>' # <<threat_cache, last_fetch_time>> =>
           op'.step = "publish"]_vars

\* C20, amended: the cache entry is written by two code paths, the end of
\* fetch_all_threats and the reset force_refresh begins with, which empties
\* the list and clears the fetch time together; fetch_threats_by_source,
\* search_threats and get_threat_summary themselves assign neither.
C20_WrittenByPublishOrReset ==
    [][/\ <<threat_cache, last_fetch_time>>' # <<threat_cache, last_fetch_time>> =>
              \/ op'.step = "publish"
              \/ /\ op'.name = "force_refresh"
                 /\ op'.entered
                 /\ threat_cache' = <<>>
                 /\ last_fetch_time' = <<>>
       /\ (op'.name \in {"fetch_threats_by_source", "search_threats",
                          "get_threat_summary", "fetch_all_threats"}
              /\ op'.step # "publish") =>
              UNCHANGED <<threat_cache, last_fetch_time>>]_vars

\* force_refresh, entered on a populated cache that was not stale, is
\* suspended in its fetch and has left the cache entry empty
C20_Witness ==
    /\ op.name = "force_refresh"
    /\ op.step = "await"
    /\ op.entered
    /\ op.found = "fresh"
    /\ threat_cache = <<>>
    /\ last_fetch_time = <<>>

C22_EnrichIsAdditive ==
    op.name = "processor.enrich_threat" =>
        /\ op.threat_after = op.threat
        /\ Len(result) = 1
        /\ Raw(result[1]) = op.threat
        /\ \/ DOMAIN result[1] = DOMAIN op.threat \cup EnrichmentKeys
           \/ result[1] = op.threat
        /\ ~IsText(op.facts) => result[1] = op.threat

\* an enrichment that failed as a whole, after its first sub-call had
\* answered, and returned the threat without any of the four keys
C22_Witness ==
    /\ op.name = "processor.enrich_threat"
    /\ ~IsText(op.facts)
    /\ op.client
    /\ op.replies.quick_summary.kind = "lines"
    /\ result = <<op.threat>>
    /\ DOMAIN result[1] \cap EnrichmentKeys = {}
    /\ op.threat_after = op.threat

\* C23: for every source and every limit >= 0, fetch_threats(limit) returns
\* at most limit items, whether the items come from the live feed or from
\* the fallback list.
C23_AtMostLimit ==
    op.name = "scraper.fetch_threats" => Len(result) <= op.limit

\* a fallback list longer than the limit was cut to the limit after the
\* live retrieval failed
C23_Witness ==
    /\ op.name = "scraper.fetch_threats"
    /\ op.source = "BleepingComputer"
    /\ op.live.error
    /\ op.limit > 0
    /\ op.limit < FallbackSize(op.source)
    /\ Len(result) = op.limit

\* C24: in the severity_breakdown of get_threat_summary each cached item
\* whose severity is, without regard to case, critical, high, medium or low
\* is counted once in that bucket and an item of any other severity in no
\* bucket, so the four buckets sum to at most total_threats.
C24_SeverityBreakdown ==
    op.name = "get_threat_summary" =>
        LET breakdown == result.severity_breakdown
            Graded == \A k \in DOMAIN threat_cache :
                          "severity" \in DOMAIN threat_cache[k]
        IN /\ DOMAIN breakdown = SeverityBuckets
           /\ Graded =>
                  \A b \in SeverityBuckets :
                      breakdown[b] =
                          Cardinality({k \in DOMAIN threat_cache :
                              FieldLower(threat_cache[k], "severity") = b})
           /\ Sum(breakdown, SeverityBuckets) <= result.total_threats

\* a summary of a cache of one item graded H and one of an unrecognised
\* severity: one item in the high bucket, nothing in the others
C24_Witness ==
    /\ op.name = "get_threat_summary"
    /\ op.found # "empty"
    /\ Len(threat_cache) = 2
    /\ \E k \in DOMAIN threat_cache :
           /\ "severity" \in DOMAIN threat_cache[k]
           /\ threat_cache[k].severity = <<"H">>
    /\ \E k \in DOMAIN threat_cache :
           /\ "severity" \in DOMAIN threat_cache[k]
           /\ Lower(threat_cache[k].severity) \notin SeverityBuckets
    /\ result.severity_breakdown[<<"h">>] = 1
    /\ Sum(result.severity_breakdown, SeverityBuckets) = 1
    /\ result.total_threats = 2

\* C25: without a client each of the four sub-calls of enrich_threat returns
\* its rule-based fallback and attempts no external call, and enrich_threat
\* still returns an item with all four fields.
C25_NoClientUsesFallbacks ==
    (op.name = "processor.enrich_threat" /\ ~op.client) =>
        /\ op.calls = {}
        /\ Len(result) = 1
        /\ IsEnriched(result[1])
        /\ result[1].quick_summary = fallback_summary(op.threat)
        /\ result[1].iocs = fallback_iocs(op.facts)
        /\ result[1].affected_systems = fallback_affected_systems(op.facts)
        /\ result[1].recommendations = fallback_recommendations(op.threat)

\* a call without a client for which the service, had it been asked, would
\* have answered every sub-call with lines other than the fallback's
C25_Witness ==
    /\ op.name = "processor.enrich_threat"
    /\ ~op.client
    /\ op.calls = {}
    /\ op.replies.quick_summary.kind = "lines"
    /\ op.replies.iocs = Reply("lines", 1)
    /\ op.replies.affected_systems = Reply("lines", MaxLines)
    /\ op.replies.recommendations = Reply("lines", 1)
    /\ op.facts = Facts(MaxMentions, 0)
    /\ IsEnriched(result[1])
    /\ result[1].quick_summary = fallback_summary(op.threat)
    /\ Len(result[1].iocs) = TopFive
    /\ result[1].affected_systems = <<"Multiple systems potentially affected">>
    /\ Len(result[1].recommendations) >= BaseRecommendations

\* C26: a refreshing fetch_all_threats calls fetch_threats(limit_per_source)
\* on every registered scraper once, in the order CISA, CERT-IN, FBI,
\* BleepingComputer, and with use_ai calls enrich_threat on the items in the
\* order collected: source by source, each source's items in its own order.
C26_RegistryOrder ==
    (op.name = "fetch_all_threats" /\ op.found # "fresh") =>
        /\ CalledSources = <<"CISA", "CERT-IN", "FBI", "BleepingComputer">>
        /\ \A i \in DOMAIN fetch_log :
               Len(fetch_log[i].threats) <= op.limit_per_source
        /\ [k \in DOMAIN enrich_log |->
               <<enrich_log[k].source, enrich_log[k].feed_id>>]
             = IF op.use_ai
               THEN Flatten([i \in DOMAIN fetch_log |->
                        [n \in DOMAIN fetch_log[i].threats |->
                            <<fetch_log[i].source,
                              fetch_log[i].threats[n].feed_id>>]])
               ELSE <<>>

\* a refresh with use_ai that collected one item of CERT-IN and one of
\* BleepingComputer and enriched them in that order, CISA having raised
C26_Witness ==
    /\ op.name = "fetch_all_threats"
    /\ op.found = "stale"
    /\ op.use_ai
    /\ fetch_log[1].raised
    /\ Len(enrich_log) = 2
    /\ enrich_log[1].source = "CERT-IN"
    /\ enrich_log[2].source = "BleepingComputer"

\* C27: while the cache is fresh, what fetch_all_threats returns does not
\* depend on limit_per_source or use_ai: it is the list the earlier refresh
\* cached, so a call with use_ai can return items that are not enriched and
\* a call with a smaller limit more than limit items of one source.
C27_FreshResultIgnoresArguments ==
    [][(op'.name = "fetch_all_threats" /\ Found = "fresh") =>
           /\ op'.limit_per_source \in LimitChoices(ArgumentsWorld)
           /\ op'.use_ai \in BOOLEAN
           /\ result' = threat_cache
           /\ \A k \in DOMAIN result' :
                  IsEnriched(result'[k]) = IsEnriched(threat_cache[k])]_vars

\* a call with use_ai and limit_per_source 0 that was answered from a fresh
\* cache with two items of one source, neither enriched
C27_Witness ==
    /\ op.name = "fetch_all_threats"
    /\ op.found = "fresh"
    /\ op.use_ai
    /\ op.limit_per_source = 0
    /\ Len(result) = MaxItems
    /\ \A k \in DOMAIN result :
           ~IsEnriched(result[k]) /\ result[k].source = result[1].source

\* C28: after every completed manager call last_fetch_time is set only if
\* threat_cache is not empty, so get_threat_summary reports neither a
\* last_updated nor a positive cache_expires_in_minutes for an empty cache.
C28_TimestampOnlyWithThreats ==
    /\ last_fetch_time # <<>> => threat_cache # <<>>
    /\ (op.name = "get_threat_summary" /\ threat_cache = <<>>) =>
           /\ result.last_updated = <<>>
           /\ result.cache_expires_in_minutes = 0

\* the threats of the scraper calls made, in the order collected
CollectedOrder == Flatten([i \in DOMAIN fetch_log |-> fetch_log[i].threats])

\* the place in the order collected of the threat an item was made of
PlaceCollected(x) ==
    CHOOSE k \in DOMAIN CollectedOrder :
        /\ CollectedOrder[k].source = x.source
        /\ CollectedOrder[k].feed_id = x.feed_id

\* C29: the sort of fetch_all_threats is stable: items of equal
\* published_date, those that all lack one included, stand in the cached
\* list in the order they were collected (registry order of the sources,
\* and the order each source returned them).
C29_SortIsStable ==
    (op.name = "fetch_all_threats" /\ op.found # "fresh") =>
        /\ result = threat_cache
        /\ \A i, j \in DOMAIN threat_cache :
               (i < j /\ SortKey(threat_cache[i]) = SortKey(threat_cache[j])) =>
                   PlaceCollected(threat_cache[i]) < PlaceCollected(threat_cache[j])

\* a cached list of a CISA threat and a BleepingComputer threat, neither
\* with a published_date, in the order collected
C29_Witness ==
    /\ op.name = "fetch_all_threats"
    /\ op.found # "fresh"
    /\ Len(threat_cache) = 2
    /\ ~HasDate(threat_cache[1])
    /\ ~HasDate(threat_cache[2])
    /\ threat_cache[1].source = "CISA"
    /\ threat_cache[2].source = "BleepingComputer"
    /\ PlaceCollected(threat_cache[1]) = 1

\* C30: get_threat_manager returns the same manager on every call in a
\* process: a manager is constructed at most once, the api key of a later
\* call is ignored, and every caller reads and writes the one cache entry
\* of that manager.
C30_OneManager ==
    [][op'.name = "get_threat_manager" =>
           /\ result' = threat_manager_instance'
           /\ result'[1].id = 1
           /\ threat_manager_instance # <<>> =>
                  /\ result' = threat_manager_instance
                  /\ UNCHANGED <<threat_cache, last_fetch_time>>]_vars

\* a call with another api key than the first one's that returned the
\* manager constructed with the first key, its cache filled by an earlier
\* caller
C30_Witness ==
    /\ op.name = "get_threat_manager"
    /\ op.instance # <<>>
    /\ op.openai_api_key = <<"k2">>
    /\ result = op.instance
    /\ result[1].openai_api_key = <<"k1">>
    /\ threat_cache # <<>>

====
